---- MODULE Spec2Model ----
(***************************************************************************)
(* Model of lib/contentful.js: createClient, createNonAxiosHTTPClient,     *)
(* createURL, createDefaultHeaders and the get closure of the HTTP client. *)
(*                                                                         *)
(* JavaScript objects are modelled by reference.  A header mapping lives   *)
(* in `heap` and is named by its index; a params object is a slot of       *)
(* `params` holding the set of keys it has and the value of each key.      *)
(* Strings are TLA+ strings; a host string is a sequence of tokens, one of *)
(* which is the separator ":", so that split(':') is computed, not assumed.*)
(***************************************************************************)
EXTENDS Integers, Sequences, FiniteSets, TLC

VARIABLES
    params,     \* the caller's params objects: [ParamIds -> params record]
    heap,       \* header mappings by reference: Seq([keys -> strings])
    clients,    \* clients returned by createClient, in order of creation
    requests,   \* HTTP requests issued by get, in order of issue
    last,       \* the outcome of the latest createClient call
    ncalls,     \* number of createClient calls made
    nwrites,    \* number of writes the caller made to objects it passed in
    isNode      \* process.release.name === 'node' (process taken to be defined)

vars == <<params, heap, clients, requests, last, ncalls, nwrites, isNode>>

----------------------------------------------------------------------------
(* Bounds of the model *)

MaxOps == 4
MaxHostLen == 3

----------------------------------------------------------------------------
(* Values *)

ParamIds == {1, 2}

ContentType == "application/vnd.contentful.delivery.v1+json"
DefaultHostname == "cdn.contentful.com"
SdkName == "contentful.js/VERSION"
NodeVersion == "v6.0.0"

ErrAccessToken == "Expected parameter accessToken"
ErrSpace == "Expected parameter space"
NoError == "none"

EmptyMap == [k \in {} |-> ""]

\* A params object with no keys at all: {}
EmptyParams ==
    [keys |-> {}, accessToken |-> "", space |-> "", insecure |-> FALSE,
     host |-> <<>>, headers |-> 0, defaultHeaders |-> 0,
     resolveLinks |-> "undefined", application |-> "", integration |-> "",
     defaultHostname |-> ""]

Has(p, f) == f \in p.keys

\* JavaScript truthiness of a literal written as its source text
Truthy(lit) == lit \notin {"undefined", "null", "false", "0", "''", "NaN"}

----------------------------------------------------------------------------
(* lodash assign / clone on header mappings *)

\* _.assign(target, source) on the values: source's entries win
assign(target, source) ==
    [k \in (DOMAIN target) \cup (DOMAIN source) |->
        IF k \in DOMAIN source THEN source[k] ELSE target[k]]

----------------------------------------------------------------------------
(* String helpers for host.split(':') and template strings *)

RECURSIVE Join(_)
Join(seg) == IF seg = <<>> THEN "" ELSE Head(seg) \o Join(Tail(seg))

\* host.split(':') : the segments between separators, "" segments included
RECURSIVE Split(_)
Split(host) ==
    IF \A i \in 1..Len(host) : host[i] # ":"
    THEN <<host>>
    ELSE LET i == CHOOSE j \in 1..Len(host) :
                     host[j] = ":" /\ \A m \in 1..(j-1) : host[m] # ":"
         IN <<SubSeq(host, 1, i-1)>> \o Split(SubSeq(host, i+1, Len(host)))

\* createURL with the default port taken to be 443 whatever insecure is
createURL443(p) ==
    LET parts == IF Has(p, "host") /\ p.host # <<>> THEN Split(p.host) ELSE <<>>
        hostname0 == IF Len(parts) >= 1 THEN Join(parts[1]) ELSE ""
        port0 == IF Len(parts) >= 2 THEN Join(parts[2]) ELSE ""
        insecure == Has(p, "insecure") /\ p.insecure
        hostname == IF hostname0 # "" THEN hostname0 ELSE p.defaultHostname
        port == IF port0 # "" THEN port0 ELSE "443"
    IN (IF insecure THEN "http" ELSE "https") \o "://" \o hostname
           \o ":" \o port \o "/spaces/" \o p.space \o "/"

createURL(p) ==
    LET parts == IF Has(p, "host") /\ p.host # <<>> THEN Split(p.host) ELSE <<>>
        hostname0 == IF Len(parts) >= 1 THEN Join(parts[1]) ELSE ""
        port0 == IF Len(parts) >= 2 THEN Join(parts[2]) ELSE ""
        insecure == Has(p, "insecure") /\ p.insecure
        hostname == IF hostname0 # "" THEN hostname0
                    ELSE IF Has(p, "defaultHostname") THEN p.defaultHostname
                    ELSE "undefined"
        port == IF port0 # "" THEN port0 ELSE IF insecure THEN "80" ELSE "443"
        baseURL == (IF insecure THEN "http" ELSE "https") \o "://" \o hostname
                       \o ":" \o port \o "/spaces/"
    IN IF Has(p, "space") /\ p.space # "" THEN baseURL \o p.space \o "/" ELSE baseURL

----------------------------------------------------------------------------
(* createClient and the functions it calls *)

\* validate with the two guards in the other order
validateSpaceFirst(p) ==
    IF ~(Has(p, "space") /\ p.space # "") THEN ErrSpace
    ELSE IF ~(Has(p, "accessToken") /\ p.accessToken # "") THEN ErrAccessToken
    ELSE NoError

\* validate without the guard on space
validateTokenOnly(p) ==
    IF ~(Has(p, "accessToken") /\ p.accessToken # "") THEN ErrAccessToken
    ELSE NoError

\* the two guards at the top of createClient: the message of the TypeError
\* thrown, or NoError
validate(p) ==
    IF ~(Has(p, "accessToken") /\ p.accessToken # "") THEN ErrAccessToken
    ELSE IF ~(Has(p, "space") /\ p.space # "") THEN ErrSpace
    ELSE NoError

\* resolveLinks defaulted by truthiness: !!(params.resolveLinks || true)
resolveLinksByTruthiness(p) ==
    (Has(p, "resolveLinks") /\ Truthy(p.resolveLinks)) \/ TRUE

\* !!('resolveLinks' in params ? params.resolveLinks : true)
resolveLinks(p) ==
    IF Has(p, "resolveLinks") THEN Truthy(p.resolveLinks) ELSE TRUE

\* getUserAgentHeader of contentful-sdk-core: a string composed of the sdk
\* name and of the application and integration when they are given
getUserAgentHeader(sdk, p) ==
    "sdk " \o sdk \o ";"
      \o (IF Has(p, "application") /\ p.application # ""
          THEN " app " \o p.application \o ";" ELSE "")
      \o (IF Has(p, "integration") /\ p.integration # ""
          THEN " integration " \o p.integration \o ";" ELSE "")

\* the headers createClient assigns onto params.headers
protocolHeaders(p) ==
    [k \in {"Content-Type", "X-Contentful-User-Agent"} |->
        IF k = "Content-Type" THEN ContentType
        ELSE getUserAgentHeader(SdkName, p)]

\* params.defaultHostname = ...; params.headers = assign(params.headers, {...})
\* Returns the heap and the params object after the two statements.
setProtocolHeaders(h, p) ==
    LET fresh == ~Has(p, "headers")
        ref == IF fresh THEN Len(h) + 1 ELSE p.headers
        h1 == IF fresh THEN Append(h, protocolHeaders(p))
              ELSE [h EXCEPT ![ref] = assign(@, protocolHeaders(p))]
    IN [heap |-> h1,
        params |-> [p EXCEPT !.keys = @ \cup {"defaultHostname", "headers"},
                             !.defaultHostname = DefaultHostname,
                             !.headers = ref]]

\* Returns the heap after the call and the reference the function returns.
createDefaultHeaders(h, p, node) ==
    LET fresh == ~Has(p, "defaultHeaders")
        ref == IF fresh THEN Len(h) + 1 ELSE p.defaultHeaders
        h0 == IF fresh THEN Append(h, EmptyMap) ELSE h
        auth == [k \in {"Authorization"} |-> "Bearer " \o p.accessToken]
        nodeHeaders == [k \in {"user-agent", "Accept-Encoding"} |->
                           IF k = "user-agent" THEN "node.js/" \o NodeVersion
                           ELSE "gzip"]
        h1 == [h0 EXCEPT ![ref] = assign(@, auth)]
        h2 == IF node THEN [h1 EXCEPT ![ref] = assign(@, nodeHeaders)] ELSE h1
    IN [heap |-> h2, ref |-> ref]

\* createNonAxiosHTTPClient: the values the get closure captures
createNonAxiosHTTPClient(h, p, node) ==
    LET dh == createDefaultHeaders(h, p, node)
    IN [heap |-> dh.heap,
        http |-> [baseURL |-> createURL(p), defaultHeaders |-> dh.ref]]

\* getHeaders without the clone: _.assign(defaultHeaders, options.headers || {})
getHeadersNoClone(h, ref, options) ==
    LET merged == assign(h[ref], IF Has(options, "headers")
                                 THEN options.headers ELSE EmptyMap)
    IN [heap |-> [h EXCEPT ![ref] = merged], headers |-> merged]

\* _.assign(_.clone(defaultHeaders), options.headers || {}): the clone is a
\* new object, so the heap is left as it is
getHeaders(h, ref, options) ==
    [heap |-> h,
     headers |-> assign(h[ref], IF Has(options, "headers")
                                THEN options.headers ELSE EmptyMap)]

\* issueRequests sending the request a second time
issueRequestsTwice(c, url, query, headers) ==
    LET r == [client |-> c, url |-> url, query |-> query, headers |-> headers,
              status |-> "pending"]
    IN <<r, r>>

\* agent.get(url).query(query).set(headers): the requests one get issues
issueRequests(c, url, query, headers) ==
    << [client |-> c, url |-> url, query |-> query, headers |-> headers,
        status |-> "pending"] >>

----------------------------------------------------------------------------
(* Inputs *)

Paths == {"entries"}

Options ==
    { [keys |-> {}, headers |-> EmptyMap, query |-> ""],
      [keys |-> {"headers", "query"},
       headers |-> [k \in {"X-Foo", "Authorization"} |->
                       IF k = "X-Foo" THEN "baz" ELSE "Bearer call"],
       query |-> "limit=1"] }

\* the header mappings the caller holds a reference to
CallerObjects ==
    {params[p].headers : p \in {q \in ParamIds : Has(params[q], "headers")}}
      \cup {params[p].defaultHeaders :
                p \in {q \in ParamIds : Has(params[q], "defaultHeaders")}}

WriteKeys == {"Authorization"}
WriteValues == {"written"}
Tokens == {"tok2"}

----------------------------------------------------------------------------
(* Actions *)

\* createClient calls, get calls and caller writes made so far
nops == ncalls + Len(requests) + nwrites

CreateClient(p) ==
    /\ nops < MaxOps
    /\ ncalls' = ncalls + 1
    /\ LET err == validate(params[p]) IN
       /\ last' = [p |-> p, error |-> err]
       /\ IF err # NoError
          THEN UNCHANGED <<params, heap, clients>>
          ELSE LET flag == resolveLinks(params[p])
                   s == setProtocolHeaders(heap, params[p])
                   c == createNonAxiosHTTPClient(s.heap, s.params, isNode)
               IN /\ params' = [params EXCEPT ![p] = s.params]
                  /\ heap' = c.heap
                  /\ clients' = Append(clients,
                         [http |-> c.http, resolveLinks |-> flag])
    /\ UNCHANGED <<requests, nwrites, isNode>>

Get(c, path, options) ==
    /\ nops < MaxOps
    /\ c \in 1..Len(clients)
    /\ LET http == clients[c].http
           g == getHeaders(heap, http.defaultHeaders, options)
       IN /\ heap' = g.heap
          /\ requests' = requests \o
                issueRequests(c, http.baseURL \o path, options.query, g.headers)
    /\ UNCHANGED <<params, clients, last, ncalls, nwrites, isNode>>

\* the transport settles a pending request, with a response or with an error
Settle(r, outcome) ==
    /\ r \in 1..Len(requests)
    /\ requests[r].status = "pending"
    /\ requests' = [requests EXCEPT ![r].status = outcome]
    /\ UNCHANGED <<params, heap, clients, last, ncalls, nwrites, isNode>>

\* the caller writes a key of a header mapping it passed to createClient
CallerWriteHeader(o, k, v) ==
    /\ nops < MaxOps
    /\ o \in CallerObjects
    /\ nwrites' = nwrites + 1
    /\ heap' = [heap EXCEPT ![o] = assign(@, [x \in {k} |-> v])]
    /\ UNCHANGED <<params, clients, requests, last, ncalls, isNode>>

\* the caller writes the accessToken of a params object
CallerWriteToken(p, tok) ==
    /\ nops < MaxOps
    /\ nwrites' = nwrites + 1
    /\ params' = [params EXCEPT ![p].keys = @ \cup {"accessToken"},
                                ![p].accessToken = tok]
    /\ UNCHANGED <<heap, clients, requests, last, ncalls, isNode>>

----------------------------------------------------------------------------
(* Specifications *)

WithKeys(r) ==
    [r EXCEPT !.keys =
        {"accessToken", "space"}
          \cup (IF r.headers # 0 THEN {"headers"} ELSE {})
          \cup (IF r.defaultHeaders # 0 THEN {"defaultHeaders"} ELSE {})
          \cup (IF r.application # "" THEN {"application"} ELSE {})]

\* Spec: valid params whose header mappings may be shared
InitHeap ==
    << [k \in {"X-Foo", "Content-Type"} |->
           IF k = "X-Foo" THEN "bar" ELSE "text/plain"],
       EmptyMap >>

Init ==
    /\ heap = InitHeap
    /\ \E h1 \in {0, 1}, d1 \in {0, 1, 2}, d2 \in {0, 2} :
         params = [i \in ParamIds |->
            IF i = 1
            THEN WithKeys([EmptyParams EXCEPT !.accessToken = "tok", !.space = "abc",
                              !.headers = h1, !.defaultHeaders = d1])
            ELSE WithKeys([EmptyParams EXCEPT !.accessToken = "tok2", !.space = "abc",
                              !.defaultHeaders = d2])]
    /\ clients = <<>>
    /\ requests = <<>>
    /\ last = [p |-> 0, error |-> NoError]
    /\ ncalls = 0
    /\ nwrites = 0
    /\ isNode \in BOOLEAN

\* every reference, client and request a run of at most MaxOps operations
\* can hold: a createClient call makes at most two header mappings
HeapIds == 1..(Len(InitHeap) + 2 * MaxOps)
ClientIds == 1..MaxOps
RequestIds == 1..MaxOps

\* the calls of the library's API
NextCalls ==
    \/ \E p \in ParamIds : CreateClient(p)
    \/ \E c \in ClientIds, path \in Paths, o \in Options : Get(c, path, o)

Next ==
    \/ NextCalls
    \/ \E o \in HeapIds, k \in WriteKeys, v \in WriteValues :
          CallerWriteHeader(o, k, v)
    \/ \E p \in ParamIds, tok \in Tokens : CallerWriteToken(p, tok)
    \/ \E r \in RequestIds, outcome \in {"response", "error"} : Settle(r, outcome)

Spec == Init /\ [][Next]_vars

\* SpecParams: one params object drawn over the fields createClient tests,
\* and the params object {}
OptionalKeys ==
    {"accessToken", "space", "insecure", "host", "headers", "resolveLinks",
     "application"}

InitParams ==
    /\ heap = InitHeap
    /\ \E ks \in SUBSET OptionalKeys,
          tok \in {"", "tok"}, sp \in {"", "abc"},
          rl \in {"true", "false", "undefined", "0", "1"} :
         params = [i \in ParamIds |->
            IF i = 1
            THEN [EmptyParams EXCEPT
                    !.keys = ks,
                    !.accessToken = IF "accessToken" \in ks THEN tok ELSE "",
                    !.space = IF "space" \in ks THEN sp ELSE "",
                    !.insecure = "insecure" \in ks,
                    !.host = IF "host" \in ks
                             THEN <<"example.com", ":", "9000">> ELSE <<>>,
                    !.headers = IF "headers" \in ks THEN 1 ELSE 0,
                    !.resolveLinks = IF "resolveLinks" \in ks THEN rl
                                     ELSE "undefined",
                    !.application = IF "application" \in ks THEN "myApp/1"
                                    ELSE ""]
            ELSE EmptyParams]
    /\ clients = <<>>
    /\ requests = <<>>
    /\ last = [p |-> 0, error |-> NoError]
    /\ ncalls = 0
    /\ nwrites = 0
    /\ isNode \in BOOLEAN

SpecParams == InitParams /\ [][Next]_vars

\* SpecURL: valid params drawn over insecure and over every host string of at
\* most MaxHostLen tokens
HostTokens == {"example.com", ":", "9000"}
Hosts == UNION {[1..n -> HostTokens] : n \in 0..MaxHostLen}

InitURL ==
    /\ heap = InitHeap
    /\ \E ks \in SUBSET {"insecure", "host"}, ins \in BOOLEAN, host \in Hosts :
         params = [i \in ParamIds |->
            IF i = 1
            THEN [EmptyParams EXCEPT
                    !.keys = ks \cup {"accessToken", "space"},
                    !.accessToken = "tok", !.space = "abc",
                    !.insecure = IF "insecure" \in ks THEN ins ELSE FALSE,
                    !.host = IF "host" \in ks THEN host ELSE <<>>]
            ELSE EmptyParams]
    /\ clients = <<>>
    /\ requests = <<>>
    /\ last = [p |-> 0, error |-> NoError]
    /\ ncalls = 0
    /\ nwrites = 0
    /\ isNode = TRUE

SpecURL == InitURL /\ [][NextCalls]_vars

----------------------------------------------------------------------------
(* Steps, as seen from outside *)

\* a step is a createClient call; last' names the params object it was given
CreateStep == ncalls' = ncalls + 1
\* a createClient call that returned a client, the last of clients'
CreatedStep == CreateStep /\ last'.error = NoError
\* a step on which requests were issued
IssueStep == Len(requests') > Len(requests)

MissingAccessToken(p) == ~Has(p, "accessToken") \/ p.accessToken = ""
MissingSpace(p) == ~Has(p, "space") \/ p.space = ""

----------------------------------------------------------------------------
(* C1 *)

\* C1: a createClient call on a params object whose accessToken is absent or
\* empty, whatever its other fields, fails with the error naming accessToken,
\* returns no client and issues no request.
C1_MissingAccessTokenFails ==
    [][(CreateStep /\ MissingAccessToken(params[last'.p]))
         => /\ last'.error = ErrAccessToken
            /\ clients' = clients
            /\ requests' = requests]_vars

\* a call failed on a params object that has a space and headers but an empty
\* accessToken, and no client exists
C1_Witness ==
    /\ last.p = 1
    /\ last.error = ErrAccessToken
    /\ Has(params[1], "accessToken") /\ params[1].accessToken = ""
    /\ Has(params[1], "space") /\ params[1].space = "abc"
    /\ Has(params[1], "headers")
    /\ clients = <<>>
    /\ requests = <<>>

----------------------------------------------------------------------------
(* C2 *)

\* C2, as stated: a createClient call on a params object whose space is absent
\* or empty fails with the error naming space, whether accessToken is present
\* or also missing.
C2_MissingSpaceNamesSpace ==
    [][(CreateStep /\ MissingSpace(params[last'.p]))
         => last'.error = ErrSpace]_vars

\* C2, amended: such a call always fails and returns no client; the error
\* names space when accessToken is present and non-empty, and names
\* accessToken when accessToken is missing too.
C2_MissingSpaceFails ==
    [][(CreateStep /\ MissingSpace(params[last'.p]))
         => /\ clients' = clients
            /\ last'.error =
                 IF MissingAccessToken(params[last'.p]) THEN ErrAccessToken
                 ELSE ErrSpace]_vars

\* a call failed naming space on a params object with a token and no space
C2_Witness ==
    /\ last.p = 1
    /\ last.error = ErrSpace
    /\ Has(params[1], "accessToken") /\ params[1].accessToken = "tok"
    /\ ~Has(params[1], "space")
    /\ clients = <<>>

----------------------------------------------------------------------------
(* C3 *)

\* C3: the default headers of every client createClient returns hold
\* Authorization: Bearer {accessToken}, the delivery Content-Type and the
\* composed X-Contentful-User-Agent.
C3_DefaultHeadersHoldProtocolHeaders ==
    [][CreatedStep
         => LET p == params[last'.p]
                d == heap'[clients'[Len(clients')].http.defaultHeaders]
            IN /\ {"Authorization", "Content-Type", "X-Contentful-User-Agent"}
                     \subseteq DOMAIN d
               /\ d["Authorization"] = "Bearer " \o p.accessToken
               /\ d["Content-Type"] = ContentType
               /\ d["X-Contentful-User-Agent"] = getUserAgentHeader(SdkName, p)]_vars

----------------------------------------------------------------------------
(* C4 *)

\* the index of the first ":" of a host string, 0 when it has none
FirstColon(host) ==
    IF \E i \in 1..Len(host) : host[i] = ":"
    THEN CHOOSE i \in 1..Len(host) :
             host[i] = ":" /\ \A j \in 1..Len(host) : host[j] = ":" => i <= j
    ELSE 0

\* the part of host before its first ":" (all of it when it has none)
BeforeColon(host) ==
    IF FirstColon(host) = 0 THEN host ELSE SubSeq(host, 1, FirstColon(host) - 1)

\* the port given in host: what stands between its first ":" and the next
PortGiven(host) ==
    IF FirstColon(host) = 0 THEN <<>>
    ELSE BeforeColon(SubSeq(host, FirstColon(host) + 1, Len(host)))

ExpectedURL(p, hostname) ==
    LET insecure == Has(p, "insecure") /\ p.insecure
        given == IF Has(p, "host") THEN PortGiven(p.host) ELSE <<>>
        port == IF given # <<>> THEN Join(given)
                ELSE IF insecure THEN "80" ELSE "443"
    IN (IF insecure THEN "http" ELSE "https") \o "://" \o hostname \o ":"
          \o port \o "/spaces/" \o p.space \o "/"

\* the hostname as C4 states it: the part of host before ":", or the default
\* when host is absent (an empty host string counted as absent)
HostnameAsStated(p) ==
    IF Has(p, "host") /\ p.host # <<>>
    THEN Join(BeforeColon(p.host)) ELSE DefaultHostname

\* the hostname as amended: the default also when that part is empty
HostnameAmended(p) ==
    IF Has(p, "host") /\ BeforeColon(p.host) # <<>>
    THEN Join(BeforeColon(p.host)) ELSE DefaultHostname

\* every get uses the base URL of its client, followed by the path
GetUsesBaseURL ==
    IssueStep
      => \E path \in Paths :
            LET r == requests'[Len(requests')]
            IN r.url = clients[r.client].http.baseURL \o path

\* C4, as stated: the base URL is {scheme}://{hostname}:{port}/spaces/{space}/
\* with the hostname the part of host before ":", or cdn.contentful.com when
\* host is absent.
C4_BaseURLAsStated ==
    [][/\ CreatedStep
          => clients'[Len(clients')].http.baseURL
               = ExpectedURL(params[last'.p], HostnameAsStated(params[last'.p]))
       /\ GetUsesBaseURL]_vars

\* C4, amended: the hostname is cdn.contentful.com also when the part of host
\* before ":" is empty (host starts with ":"); the scheme follows insecure alone, and the port is the one
\* given in host, or else 80 if insecure and 443 if not.
C4_BaseURL ==
    [][/\ CreatedStep
          => clients'[Len(clients')].http.baseURL
               = ExpectedURL(params[last'.p], HostnameAmended(params[last'.p]))
       /\ GetUsesBaseURL]_vars

\* an insecure client was made from a host string that gives a port and no
\* hostname, and a get went to the default hostname at that port
C4_Witness ==
    /\ Has(params[1], "host") /\ params[1].host = <<":", "9000">>
    /\ Has(params[1], "insecure") /\ params[1].insecure
    /\ Len(requests) >= 1
    /\ requests[1].url = "http://cdn.contentful.com:9000/spaces/abc/entries"

----------------------------------------------------------------------------
(* C5 *)

\* C5: the flag createClient hands to the link resolver is true when params
\* has no resolveLinks key, and the truthiness of the value when it has one.
C5_ResolveLinksByKeyPresence ==
    [][CreatedStep
         => LET p == params[last'.p]
                flag == clients'[Len(clients')].resolveLinks
            IN /\ ~Has(p, "resolveLinks") => flag = TRUE
               /\ (Has(p, "resolveLinks")
                     /\ p.resolveLinks \in {"false", "undefined", "0"})
                    => flag = FALSE
               /\ (Has(p, "resolveLinks") /\ p.resolveLinks \in {"true", "1"})
                    => flag = TRUE]_vars

\* a client was made from params whose resolveLinks key holds undefined, and
\* its flag is false
C5_Witness ==
    /\ last.p = 1 /\ last.error = NoError
    /\ Has(params[1], "resolveLinks") /\ params[1].resolveLinks = "undefined"
    /\ Len(clients) = 1
    /\ clients[1].resolveLinks = FALSE

----------------------------------------------------------------------------
(* C6 *)

\* C6: a get leaves every header mapping as it was, and sends the client's
\* default headers overlaid with the per-call headers: the per-call value for
\* each per-call key, the default for every other key, and no further key.  A
\* get without per-call headers so sends exactly the defaults.
C6_GetLeavesDefaults ==
    [][IssueStep
         => /\ heap' = heap
            /\ LET r == requests'[Len(requests')]
                   d == heap[clients[r.client].http.defaultHeaders]
               IN \E o \in Options :
                    LET h == IF Has(o, "headers") THEN o.headers ELSE EmptyMap
                    IN /\ r.query = o.query
                       /\ DOMAIN r.headers = (DOMAIN d) \cup (DOMAIN h)
                       /\ \A k \in DOMAIN h : r.headers[k] = h[k]
                       /\ \A k \in (DOMAIN d) \ (DOMAIN h) : r.headers[k] = d[k]
                       /\ ~Has(o, "headers") => r.headers = d]_vars

\* a client got a request with per-call headers and then one without, and the
\* second holds the defaults and not the X-Foo of the first
C6_Witness ==
    /\ Len(requests) = 2
    /\ requests[1].client = requests[2].client
    /\ requests[1].query = "limit=1"
    /\ requests[1].headers["X-Foo"] = "baz"
    /\ requests[1].headers["Authorization"] = "Bearer call"
    /\ requests[2].query = ""
    /\ "X-Foo" \notin DOMAIN requests[2].headers
    /\ requests[2].headers
         = heap[clients[requests[2].client].http.defaultHeaders]

----------------------------------------------------------------------------
(* C7 *)

\* C7: once createClient has returned a client, no later step changes the
\* base URL or the default headers that client's get uses.
C7_ClientOwnsItsConfig ==
    [][\A c \in 1..Len(clients) :
          /\ clients'[c] = clients[c]
          /\ heap'[clients[c].http.defaultHeaders]
               = heap[clients[c].http.defaultHeaders]]_vars

----------------------------------------------------------------------------
(* C8 *)

ProtocolKeys == {"Content-Type", "X-Contentful-User-Agent"}

\* C8: the headers of params.headers are in the client's default headers,
\* with Content-Type and X-Contentful-User-Agent set to the protocol values
\* and every other header of the caller as the caller gave it.
C8_CallerHeadersReachDefaults ==
    [][(CreatedStep /\ Has(params[last'.p], "headers"))
         => LET p == params[last'.p]
                given == heap[p.headers]
                d == heap'[clients'[Len(clients')].http.defaultHeaders]
            IN /\ ProtocolKeys \subseteq DOMAIN d
               /\ d["Content-Type"] = ContentType
               /\ d["X-Contentful-User-Agent"] = getUserAgentHeader(SdkName, p)
               /\ \A k \in (DOMAIN given) \ (ProtocolKeys \cup {"Authorization"}) :
                     k \in DOMAIN d /\ d[k] = given[k]]_vars

----------------------------------------------------------------------------
(* C9 *)

\* C9: a createClient call leaves the params objects and the header mappings
\* that exist when it is made as they are, whether it succeeds or fails.
C9_CreateClientLeavesParams ==
    [][CreateStep
         => /\ params' = params
            /\ \A o \in 1..Len(heap) : heap'[o] = heap[o]]_vars

----------------------------------------------------------------------------
(* C10 *)

\* C10: a get issues exactly one request, which is pending; no other step
\* issues one (no retry); a request that has settled keeps its outcome; and a
\* step that settles a request leaves every other request as it was.
C10_OneRequestSettledOnce ==
    [][/\ Len(requests') >= Len(requests)
       /\ IssueStep
            => /\ Len(requests') = Len(requests) + 1
               /\ requests'[Len(requests')].status = "pending"
               /\ SubSeq(requests', 1, Len(requests)) = requests
               /\ UNCHANGED <<ncalls, nwrites>>
       /\ \A r \in 1..Len(requests) :
            /\ requests[r].status # "pending" => requests'[r] = requests[r]
            /\ requests'[r] # requests[r]
                 => /\ requests[r].status = "pending"
                    /\ requests'[r] \in
                         {[requests[r] EXCEPT !.status = s] :
                              s \in {"response", "error"}}
                    /\ Len(requests') = Len(requests)
                    /\ \A q \in 1..Len(requests) :
                          q # r => requests'[q] = requests[q]]_vars

\* two gets were made, the first request failed and the second got its response
C10_Witness ==
    /\ Len(requests) = 2
    /\ requests[1].status = "error"
    /\ requests[2].status = "response"

====
